---- MODULE Spec2Model ----
(***************************************************************************)
(* A model of applenotescli: the binary content extractor (db.py), the     *)
(* Markdown/HTML codec (convert.py, converters.py), the timestamp          *)
(* formatter and the edit command (cli.py) and the AppleScript string      *)
(* escaping (applescript.py).                                              *)
(*                                                                         *)
(* Text is modelled as sequences: the extractor works on sequences of      *)
(* byte values (0..255) and of Unicode code points; the codec works on     *)
(* sequences of one-character strings.                                     *)
(***************************************************************************)
EXTENDS Integers, Sequences, FiniteSets, TLC

VARIABLES
    \* extract_text_from_note_data (db.py)
    data,            \* the blob argument: [present, bytes]
    for_display,     \* the mode argument
    exPc,            \* position in the function
    exRaised,        \* an exception left the function
    decompressed,    \* gzip.decompress(data)
    pos,             \* index of the byte loop
    current_text,    \* the run being accumulated
    text_parts,      \* the kept fragments
    all_lines,       \* Display mode: the fragments split on newlines
    line_i,          \* index of the line loop
    filtered_lines,  \* the surviving lines
    junk_count,      \* the consecutive-junk counter
    exResult,        \* the returned text
    \* markdown_to_html (convert.py) and html_to_markdown (converters.py)
    md_text,         \* the text argument of markdown_to_html
    text_has_get_text, \* whether the installed bs4 gives text nodes a get_text
    encPc,           \* position in the codec run
    lines,           \* text.split("\n")
    line_no,         \* index of the line loop
    html_lines,      \* the output lines
    in_ul,           \* inside an unordered list
    in_ol,           \* inside an ordered list
    html,            \* markdown_to_html(md_text)
    decoded,         \* html_to_markdown(html)
    html2,           \* markdown_to_html(decoded)
    \* format_date (cli.py)
    timestamp,       \* the argument: [present, days, secs], days * 86400 + secs seconds
    datePc,          \* position in the function
    dateResult,      \* the returned text: [unknown, year, month, day, hour, minute]
    \* escape_for_applescript and create_note (applescript.py)
    escText,         \* the string passed to create_note
    escPc,           \* position in create_note
    escaped,         \* escape_for_applescript(escText)
    script,          \* the string literal of the script, quotes included
    scriptRead,      \* what the interpreter reads from the literal
    \* the edit command (cli.py) and the note in the Notes application
    note_body,       \* the live note's HTML body
    note_mod,        \* the live note's modification date
    external_edits,  \* modifications made by the Notes application so far
    editPc,          \* position in the command
    initial_mod_date,
    current_html,
    current_markdown,
    new_markdown,
    current_mod_date,
    confirm_answer,  \* the user's answer to "Overwrite changes?"
    calls,           \* the Automation Client calls issued: [op, mod], mod the note's date then
    edit_output      \* the lines the command has echoed

exVars == <<data, for_display, exPc, exRaised, decompressed, pos, current_text,
            text_parts, all_lines, line_i, filtered_lines, junk_count, exResult>>

codecVars == <<md_text, text_has_get_text, encPc, lines, line_no, html_lines, in_ul,
               in_ol, html, decoded, html2>>

dateVars == <<timestamp, datePc, dateResult>>

escVars == <<escText, escPc, escaped, script, scriptRead>>

editVars == <<note_body, note_mod, external_edits, editPc, initial_mod_date, current_html,
              current_markdown, new_markdown, current_mod_date, confirm_answer, calls,
              edit_output>>

vars == <<exVars, codecVars, dateVars, escVars, editVars>>

\* what an action of one component leaves alone
exOther == <<codecVars, dateVars, escVars, editVars>>
codecOther == <<exVars, dateVars, escVars, editVars>>
dateOther == <<exVars, codecVars, escVars, editVars>>
escOther == <<exVars, codecVars, dateVars, editVars>>
editOther == <<exVars, codecVars, dateVars, escVars>>

Min(S) == CHOOSE m \in S : \A x \in S : m <= x
Max(S) == CHOOSE m \in S : \A x \in S : m >= x

(***************************************************************************)
(* Sequence helpers (Python str / bytes / list methods).                   *)
(***************************************************************************)

\* sep.join(parts)
RECURSIVE Join(_, _)
Join(parts, sep) ==
    IF parts = <<>> THEN <<>>
    ELSE IF Len(parts) = 1 THEN parts[1]
    ELSE parts[1] \o sep \o Join(Tail(parts), sep)

\* s.find(c) + 1 for a single element c (0: not found)
FirstIndex(s, c) ==
    IF \E i \in 1..Len(s) : s[i] = c
    THEN CHOOSE i \in 1..Len(s) : s[i] = c /\ \A j \in 1..(i - 1) : s[j] # c
    ELSE 0

\* s.split(c) for a single element c
RECURSIVE SplitOn(_, _)
SplitOn(s, c) ==
    LET i == FirstIndex(s, c) IN
    IF i = 0 THEN <<s>>
    ELSE <<SubSeq(s, 1, i - 1)>> \o SplitOn(SubSeq(s, i + 1, Len(s)), c)

\* s.startswith(p)
StartsWith(s, p) == Len(s) >= Len(p) /\ SubSeq(s, 1, Len(p)) = p

\* s.strip(): s without its leading and trailing elements of the set space
StripSet(s, space) ==
    LET keep == {i \in 1..Len(s) : s[i] \notin space} IN
    IF keep = {} THEN <<>> ELSE SubSeq(s, Min(keep), Max(keep))

\* s.find(p) + 1 for a sequence p (0: not found)
IndexOfSub(s, p) ==
    LET hits == {i \in 1..(Len(s) - Len(p) + 1) : SubSeq(s, i, i + Len(p) - 1) = p} IN
    IF hits = {} THEN 0 ELSE Min(hits)

\* s.count(p) for a sequence p that cannot overlap itself
CountSub(s, p) ==
    Cardinality({i \in 1..(Len(s) - Len(p) + 1) : SubSeq(s, i, i + Len(p) - 1) = p})

\* the concatenation of a sequence of sequences
Concat(parts) == Join(parts, <<>>)

(***************************************************************************)
(* gzip.  The container is the standard library's; it is modelled at a     *)
(* reduced scale: a member is the header <<31, 139, 8, 0>> (magic, method  *)
(* deflate, no flags), a stored block <<length>> \o payload, and a trailer *)
(* <<checksum, length>> standing for CRC32 and ISIZE.  Members may be      *)
(* followed by zero padding and further members.                           *)
(***************************************************************************)

RECURSIVE SumBytes(_)
SumBytes(bs) == IF bs = <<>> THEN 0 ELSE bs[1] + SumBytes(Tail(bs))

Checksum(bs) == SumBytes(bs) % 256

GzipCompress(payload) ==
    <<31, 139, 8, 0, Len(payload)>> \o payload \o <<Checksum(payload), Len(payload) % 256>>

RECURSIVE LStripZeros(_)
LStripZeros(bs) == IF bs # <<>> /\ bs[1] = 0 THEN LStripZeros(Tail(bs)) ELSE bs

\* gzip.decompress: [err |-> "none", out |-> bytes] or the exception raised
RECURSIVE GzipDecompress(_)
GzipDecompress(bs) ==
    IF bs = <<>> THEN [err |-> "none", out |-> <<>>]
    ELSE IF Len(bs) < 2 \/ SubSeq(bs, 1, 2) # <<31, 139>> THEN [err |-> "BadGzipFile", out |-> <<>>]
    ELSE IF Len(bs) < 4 THEN [err |-> "EOFError", out |-> <<>>]
    ELSE IF bs[3] # 8 THEN [err |-> "BadGzipFile", out |-> <<>>]
    ELSE IF Len(bs) < 5 \/ Len(bs) < 5 + bs[5] THEN [err |-> "zlib.error", out |-> <<>>]
    ELSE LET n == bs[5]
             payload == SubSeq(bs, 6, 5 + n)
             rest == SubSeq(bs, 6 + n, Len(bs))
         IN IF Len(rest) < 2 THEN [err |-> "EOFError", out |-> <<>>]
            ELSE IF rest[1] # Checksum(payload) \/ rest[2] # n % 256
                 THEN [err |-> "BadGzipFile", out |-> <<>>]
            ELSE LET more == GzipDecompress(LStripZeros(SubSeq(rest, 3, Len(rest))))
                 IN IF more.err # "none" THEN more
                    ELSE [err |-> "none", out |-> payload \o more.out]

(***************************************************************************)
(* The byte scan (db.py 75-98).                                            *)
(***************************************************************************)

MinRunLen == 3

\* AcceptedByte taking the continuation bytes as well
AcceptedByteFrom128(byte) ==
    (32 <= byte /\ byte <= 126) \/ byte \in {9, 10, 13} \/ byte >= 128

\* 32 <= byte <= 126 or byte in (9, 10, 13) or byte >= 192
AcceptedByte(byte) == (32 <= byte /\ byte <= 126) \/ byte \in {9, 10, 13} \/ byte >= 192

IsContinuation(b) == 128 <= b /\ b <= 191

\* the number of continuation bytes a lead byte asks for (-1: not a lead byte)
Utf8Need(b) ==
    IF b < 128 THEN 0
    ELSE IF 194 <= b /\ b <= 223 THEN 1
    ELSE IF 224 <= b /\ b <= 239 THEN 2
    ELSE IF 240 <= b /\ b <= 244 THEN 3
    ELSE -1

Utf8CodePoint(bs) ==
    IF Len(bs) = 1 THEN bs[1]
    ELSE IF Len(bs) = 2 THEN (bs[1] - 192) * 64 + (bs[2] - 128)
    ELSE IF Len(bs) = 3 THEN (bs[1] - 224) * 4096 + (bs[2] - 128) * 64 + (bs[3] - 128)
    ELSE (bs[1] - 240) * 262144 + (bs[2] - 128) * 4096 + (bs[3] - 128) * 64 + (bs[4] - 128)

\* bytes.decode("utf-8", errors="ignore"): the code points of the well-formed
\* sequences; a byte that starts no well-formed sequence is dropped
RECURSIVE Utf8DecodeIgnore(_)
Utf8DecodeIgnore(bs) ==
    IF bs = <<>> THEN <<>>
    ELSE LET need == Utf8Need(bs[1])
             ok == /\ need >= 0
                   /\ Len(bs) >= 1 + need
                   /\ \A k \in 2..(1 + need) : IsContinuation(bs[k])
         IN IF ok
            THEN <<Utf8CodePoint(SubSeq(bs, 1, 1 + need))>>
                     \o Utf8DecodeIgnore(SubSeq(bs, 2 + need, Len(bs)))
            ELSE Utf8DecodeIgnore(Tail(bs))

\* FlushRun keeping only the runs longer than 3 bytes
FlushRunOverThree(parts, run) ==
    IF Len(run) > MinRunLen THEN Append(parts, Utf8DecodeIgnore(run)) ELSE parts

\* a terminated run is kept when it has at least 3 bytes
FlushRun(parts, run) ==
    IF Len(run) >= MinRunLen THEN Append(parts, Utf8DecodeIgnore(run)) ELSE parts

(***************************************************************************)
(* The Display-mode line filter (db.py 100-145).                           *)
(***************************************************************************)

JunkLimit == 3
ShortLineLen == 10

LF == 10
ObjectReplacement == 65532

\* "[Attachment]"
AttachmentToken == <<91, 65, 116, 116, 97, 99, 104, 109, 101, 110, 116, 93>>

\* "Helvetica", "Helvetica Neue", "SF Pro"
FontNames ==
    { <<72, 101, 108, 118, 101, 116, 105, 99, 97>>,
      <<72, 101, 108, 118, 101, 116, 105, 99, 97, 32, 78, 101, 117, 101>>,
      <<83, 70, 32, 80, 114, 111>> }

\* "public." and "com.apple."
UtiPrefixes ==
    { <<112, 117, 98, 108, 105, 99, 46>>,
      <<99, 111, 109, 46, 97, 112, 112, 108, 101, 46>> }

\* the code points str.strip() removes
SpaceCodes == {9, 10, 11, 12, 13, 28, 29, 30, 31, 32, 133, 160}

\* str.isalpha() on one code point (the ASCII letters; a run never decodes to
\* anything else)
IsAlpha(c) == (65 <= c /\ c <= 90) \/ (97 <= c /\ c <= 122)

IsHex(c) == (48 <= c /\ c <= 57) \/ (65 <= c /\ c <= 70) \/ (97 <= c /\ c <= 102)

\* str.strip() on code points
Strip(s) == StripSet(s, SpaceCodes)

\* ^[\$]?[0-9a-fA-F]{8}-[0-9a-fA-F]{4}-[0-9a-fA-F]{4}-[0-9a-fA-F]{4}-[0-9a-fA-F]{12}$
UuidBody(s) ==
    /\ Len(s) = 36
    /\ \A i \in 1..36 : IF i \in {9, 14, 19, 24} THEN s[i] = 45 ELSE IsHex(s[i])

MatchesUuid(s) ==
    \/ UuidBody(s)
    \/ (s # <<>> /\ s[1] = 36 /\ UuidBody(Tail(s)))

AlphaCount(s) == Cardinality({i \in 1..Len(s) : IsAlpha(s[i])})

\* LineVerdict without the UUID rule
LineVerdictNoUuid(line) ==
    LET stripped == Strip(line) IN
    IF stripped = <<>> THEN "skip"
    ELSE IF stripped \in FontNames THEN "skip"
    ELSE IF \E p \in UtiPrefixes : StartsWith(stripped, p) THEN "skip"
    ELSE IF Len(stripped) <= ShortLineLen /\ 2 * AlphaCount(stripped) <= Len(stripped)
         THEN "junk"
    ELSE "keep"

\* what the loop body does with one line: "skip" (continue, counter untouched),
\* "junk" (counter incremented, line dropped) or "keep"
LineVerdict(line) ==
    LET stripped == Strip(line) IN
    IF stripped = <<>> THEN "skip"
    ELSE IF stripped \in FontNames THEN "skip"
    ELSE IF MatchesUuid(stripped) THEN "skip"
    ELSE IF \E p \in UtiPrefixes : StartsWith(stripped, p) THEN "skip"
    ELSE IF Len(stripped) <= ShortLineLen /\ 2 * AlphaCount(stripped) <= Len(stripped)
         THEN "junk"
    ELSE "keep"

\* JunkStop stopping one line early
JunkStopEarly(count) == count >= JunkLimit

\* if junk_count > 3: break
JunkStop(count) == count > JunkLimit

\* text.replace("￼", "[Attachment]")
RECURSIVE ReplaceObjectChar(_)
ReplaceObjectChar(s) ==
    IF s = <<>> THEN <<>>
    ELSE (IF s[1] = ObjectReplacement THEN AttachmentToken ELSE <<s[1]>>)
             \o ReplaceObjectChar(Tail(s))

\* all_lines: every fragment split on "\n", in order
RECURSIVE SplitParts(_)
SplitParts(parts) ==
    IF parts = <<>> THEN <<>>
    ELSE SplitOn(parts[1], LF) \o SplitParts(Tail(parts))

(***************************************************************************)
(* The inputs of the extractor.                                            *)
(***************************************************************************)

MaxChunks == 4

\* "ok\n", "##\n", "SF Pro\n", a framing byte, U+FFFC in UTF-8
Chunks ==
    { <<111, 107, 10>>,
      <<35, 35, 10>>,
      <<83, 70, 32, 80, 114, 111, 10>>,
      <<0>>,
      <<239, 191, 188>> }

RECURSIVE ChunkSeqs(_)
ChunkSeqs(n) ==
    IF n = 0 THEN { <<>> }
    ELSE LET shorter == ChunkSeqs(n - 1) IN
         shorter \cup { Append(s, c) : s \in { t \in shorter : Len(t) = n - 1 }, c \in Chunks }

ChunkPayloads == { Concat(s) : s \in ChunkSeqs(MaxChunks) }

\* "ok\n##\n!!\n$$\n&&\n@@\nmoretext"
JunkScenarioLines ==
    << <<111, 107>>, <<35, 35>>, <<33, 33>>, <<36, 36>>, <<38, 38>>, <<64, 64>>,
       <<109, 111, 114, 101, 116, 101, 120, 116>> >>

JunkScenario == Join(JunkScenarioLines, <<LF>>)

\* "Hello world"
HelloWorld == <<72, 101, 108, 108, 111, 32, 119, 111, 114, 108, 100>>

\* "3f2a9c1e-7b4d-4e6f-8a0b-5C6D7E8F9A0B"
UuidLine ==
    <<51, 102, 50, 97, 57, 99, 49, 101, 45, 55, 98, 52, 100, 45, 52, 101, 54, 102, 45,
      56, 97, 48, 98, 45, 53, 67, 54, 68, 55, 69, 56, 70, 57, 65, 48, 66>>

\* "#!$&", "12.3", "@@@@", "(=)%", "~^~^"
NoiseRuns ==
    << <<35, 33, 36, 38>>, <<49, 50, 46, 51>>, <<64, 64, 64, 64>>,
       <<40, 61, 41, 37>>, <<126, 94, 126, 94>> >>

NoiseCount == Len(NoiseRuns)

\* bytes that end a run, put between the runs of the interleaving
SepBytes == {0, 150}

\* the runs in the order where "Hello world" is the h-th and the UUID the u-th
Interleaving(h, u) ==
    [k \in 1..(NoiseCount + 2) |->
        IF k = h THEN HelloWorld
        ELSE IF k = u THEN UuidLine
        ELSE NoiseRuns[Cardinality({j \in 1..k : j # h /\ j # u})]]

InterleavedPayload(h, u, sep) == Join(Interleaving(h, u), <<sep>>)

\* the places (h, u) of "Hello world" and of the UUID among the runs
Orders ==
    { o \in (1..(NoiseCount + 2)) \X (1..(NoiseCount + 2)) : o[1] # o[2] }

InterleavedPayloads ==
    { InterleavedPayload(o[1], o[2], sep) : o \in Orders, sep \in SepBytes }

\* the number of noise runs before "Hello world"
NoiseBefore(h, u) == Cardinality({j \in 1..(h - 1) : j # u})

\* "Hello " U+FFFC " world"
AttachmentScenario ==
    <<72, 101, 108, 108, 111, 32, 239, 191, 188, 32, 119, 111, 114, 108, 100>>

\* "ab" 00 "abc" 00 "abcd": runs of 2, 3 and 4 bytes
ScanScenario == <<97, 98, 0, 97, 98, 99, 0, 97, 98, 99, 100>>

\* "caf" C3 A9 " au lait" (U+00E9 in UTF-8)
NonAsciiScenario == <<99, 97, 102, 195, 169, 32, 97, 117, 32, 108, 97, 105, 116>>

Payloads ==
    ChunkPayloads \cup {JunkScenario, AttachmentScenario, ScanScenario, NonAsciiScenario}
        \cup InterleavedPayloads

\* ways a blob reaches the function: a gzip stream, or something else
Damage == {"gzip", "padded", "raw", "badmagic", "badmethod", "truncated", "badcrc",
           "badsize", "trailing", "header"}

Damaged(kind, payload) ==
    LET z == GzipCompress(payload) IN
    CASE kind = "gzip" -> z
      [] kind = "padded" -> z \o <<0, 0>>
      [] kind = "raw" -> payload
      [] kind = "badmagic" -> <<31, 140>> \o SubSeq(z, 3, Len(z))
      [] kind = "badmethod" -> <<31, 139, 7>> \o SubSeq(z, 4, Len(z))
      [] kind = "truncated" -> SubSeq(z, 1, Len(z) - 1)
      [] kind = "badcrc" -> SubSeq(z, 1, Len(z) - 2)
                                \o <<(z[Len(z) - 1] + 1) % 256, z[Len(z)]>>
      [] kind = "badsize" -> SubSeq(z, 1, Len(z) - 1) \o <<(z[Len(z)] + 1) % 256>>
      [] kind = "trailing" -> z \o <<65>>
      [] kind = "header" -> <<31, 139, 8>>

\* the payloads that are also fed in damaged
DamagedPayloads == { p \in ChunkPayloads : Len(p) <= 4 } \cup {JunkScenario}

Blobs ==
    { [present |-> TRUE, bytes |-> GzipCompress(p)] : p \in Payloads }
    \cup { [present |-> TRUE, bytes |-> Damaged(k, p)] : k \in Damage, p \in DamagedPayloads }
    \cup { [present |-> FALSE, bytes |-> <<>>] }

(***************************************************************************)
(* markdown_to_html and _convert_inline (convert.py).  Text is a sequence  *)
(* of one-character strings.                                               *)
(***************************************************************************)

\* the characters str.strip() removes and \s matches
SpaceChars == {" ", "\t", "\n", "\r", "\f"}

\* \d
DigitChars == {"0", "1", "2", "3", "4", "5", "6", "7", "8", "9"}

StripChars(s) == StripSet(s, SpaceChars)

NameUl == <<"u", "l">>
NameOl == <<"o", "l">>
NameLi == <<"l", "i">>
NameDiv == <<"d", "i", "v">>
NameBr == <<"b", "r">>
NameB == <<"b">>
NameI == <<"i">>
NameU == <<"u">>
NameA == <<"a">>
NameCode == <<"c", "o", "d", "e">>
NameStrike == <<"s", "t", "r", "i", "k", "e">>
NameH1 == <<"h", "1">>
NameH2 == <<"h", "2">>
NameH3 == <<"h", "3">>

OpenTag(name) == <<"<">> \o name \o <<">">>
CloseTag(name) == <<"<", "/">> \o name \o <<">">>

\* f"<name>{content}</name>"
Wrap(name, content) == OpenTag(name) \o content \o CloseTag(name)

\* the length of the longest run of elements other than stop from index from on
RunLength(s, from, stop) ==
    LET hits == {j \in from..Len(s) : s[j] = stop} IN
    IF hits = {} THEN Len(s) - from + 1 ELSE Min(hits) - from

\* re.sub(open + "([^stop]+)" + close, "<name>\1</name>", s), where stop is the
\* delimiter's character: leftmost matches, left to right, not overlapping
RECURSIVE SubSpan(_, _, _, _, _)
SubSpan(s, open, stop, close, name) ==
    IF s = <<>> THEN <<>>
    ELSE LET n == IF StartsWith(s, open) THEN RunLength(s, Len(open) + 1, stop) ELSE 0
             last == Len(open) + n
             hit == /\ StartsWith(s, open)
                    /\ n >= 1
                    /\ StartsWith(SubSeq(s, last + 1, Len(s)), close)
         IN IF hit
            THEN Wrap(name, SubSeq(s, Len(open) + 1, last))
                     \o SubSpan(SubSeq(s, last + Len(close) + 1, Len(s)), open, stop, close, name)
            ELSE <<s[1]>> \o SubSpan(Tail(s), open, stop, close, name)

\* re.sub(r"\[([^\]]+)\]\(([^)]+)\)", r'<a href="\2">\1</a>', s)
RECURSIVE SubLink(_)
SubLink(s) ==
    IF s = <<>> THEN <<>>
    ELSE LET n1 == IF s[1] = "[" THEN RunLength(s, 2, "]") ELSE 0
             mid == 2 + n1
             okMid == /\ s[1] = "["
                      /\ n1 >= 1
                      /\ mid + 1 <= Len(s)
                      /\ s[mid] = "]"
                      /\ s[mid + 1] = "("
             n2 == IF okMid THEN RunLength(s, mid + 2, ")") ELSE 0
             close == mid + 2 + n2
             hit == okMid /\ n2 >= 1 /\ close <= Len(s) /\ s[close] = ")"
         IN IF hit
            THEN <<"<", "a", " ", "h", "r", "e", "f", "=", "\"">>
                     \o SubSeq(s, mid + 2, close - 1) \o <<"\"", ">">>
                     \o SubSeq(s, 2, mid - 1) \o CloseTag(NameA)
                     \o SubLink(SubSeq(s, close + 1, Len(s)))
            ELSE <<s[1]>> \o SubLink(Tail(s))

\* the backquote character (a string literal cannot hold one)
Backquote == "backquote"

SubCode(s) == SubSpan(s, <<Backquote>>, Backquote, <<Backquote>>, NameCode)
SubBoldStar(s) == SubSpan(s, <<"*", "*">>, "*", <<"*", "*">>, NameB)
SubBoldUnder(s) == SubSpan(s, <<"_", "_">>, "_", <<"_", "_">>, NameB)
SubItalicStar(s) == SubSpan(s, <<"*">>, "*", <<"*">>, NameI)
SubItalicUnder(s) == SubSpan(s, <<"_">>, "_", <<"_">>, NameI)

\* _convert_inline: code, bold, italic, links, in that order
ConvertInline(text) ==
    SubLink(SubItalicUnder(SubItalicStar(SubBoldUnder(SubBoldStar(SubCode(text))))))

\* stripped.startswith("- ") or stripped.startswith("* ")
IsUlItem(stripped) ==
    StartsWith(stripped, <<"-", " ">>) \/ StartsWith(stripped, <<"*", " ">>)

\* the length of the match of ^\d+\.\s at the start of stripped (0: no match)
OlPrefixLen(stripped) ==
    LET others == {j \in 1..Len(stripped) : stripped[j] \notin DigitChars}
        nd == IF others = {} THEN Len(stripped) ELSE Min(others) - 1
    IN IF /\ nd >= 1
          /\ Len(stripped) >= nd + 2
          /\ stripped[nd + 1] = "."
          /\ stripped[nd + 2] \in SpaceChars
       THEN nd + 2 ELSE 0

\* the loop state before the first line
EncStart == [html_lines |-> <<>>, in_ul |-> FALSE, in_ol |-> FALSE]

\* LeavesList never leaving
LeavesListNever(flag, is_item) == FALSE

\* if in_ul and not is_ul_item (and the same for in_ol)
LeavesList(flag, is_item) == flag /\ ~is_item

\* OpensList opening a container for every item
OpensListAlways(flag) == TRUE

\* if not in_ul (and the same for in_ol), on an item line
OpensList(flag) == ~flag

\* the body of the line loop: st is (html_lines, in_ul, in_ol) before the line
EncodeLine(st, line) ==
    LET stripped == StripChars(line)
        is_ul_item == IsUlItem(stripped)
        is_ol_item == OlPrefixLen(stripped) > 0
        \* leaving a list
        out1 == IF LeavesList(st.in_ul, is_ul_item)
                THEN Append(st.html_lines, CloseTag(NameUl)) ELSE st.html_lines
        ul1 == st.in_ul /\ ~LeavesList(st.in_ul, is_ul_item)
        out2 == IF LeavesList(st.in_ol, is_ol_item)
                THEN Append(out1, CloseTag(NameOl)) ELSE out1
        ol1 == st.in_ol /\ ~LeavesList(st.in_ol, is_ol_item)
        rest(k) == SubSeq(stripped, k + 1, Len(stripped))
    IN IF stripped = <<>>
       THEN [html_lines |-> Append(out2, OpenTag(NameBr)), in_ul |-> ul1, in_ol |-> ol1]
       ELSE IF StartsWith(stripped, <<"#", "#", "#", " ">>)
       THEN [html_lines |-> Append(out2, Wrap(NameH3, ConvertInline(rest(4)))),
             in_ul |-> ul1, in_ol |-> ol1]
       ELSE IF StartsWith(stripped, <<"#", "#", " ">>)
       THEN [html_lines |-> Append(out2, Wrap(NameH2, ConvertInline(rest(3)))),
             in_ul |-> ul1, in_ol |-> ol1]
       ELSE IF StartsWith(stripped, <<"#", " ">>)
       THEN [html_lines |-> Append(out2, Wrap(NameH1, ConvertInline(rest(2)))),
             in_ul |-> ul1, in_ol |-> ol1]
       ELSE IF is_ul_item
       THEN [html_lines |->
                 Append(IF OpensList(ul1) THEN Append(out2, OpenTag(NameUl)) ELSE out2,
                        Wrap(NameLi, ConvertInline(rest(2)))),
             in_ul |-> TRUE, in_ol |-> ol1]
       ELSE IF is_ol_item
       THEN [html_lines |->
                 Append(IF OpensList(ol1) THEN Append(out2, OpenTag(NameOl)) ELSE out2,
                        Wrap(NameLi, ConvertInline(rest(OlPrefixLen(stripped))))),
             in_ul |-> ul1, in_ol |-> TRUE]
       ELSE [html_lines |-> Append(out2, Wrap(NameDiv, ConvertInline(stripped))),
             in_ul |-> ul1, in_ol |-> ol1]

\* CloseLists leaving the lists open at the end of the input
CloseListsNever(st) == st.html_lines

\* after the loop: close any remaining open lists
CloseLists(st) ==
    LET out1 == IF st.in_ul THEN Append(st.html_lines, CloseTag(NameUl)) ELSE st.html_lines
    IN IF st.in_ol THEN Append(out1, CloseTag(NameOl)) ELSE out1

RECURSIVE EncodeLines(_, _)
EncodeLines(st, ls) ==
    IF ls = <<>> THEN st ELSE EncodeLines(EncodeLine(st, ls[1]), Tail(ls))

\* markdown_to_html as a function of its argument
MarkdownToHtml(text) ==
    IF text = <<>> THEN <<>>
    ELSE Join(CloseLists(EncodeLines(EncStart, SplitOn(text, "\n"))), <<"\n">>)

(***************************************************************************)
(* html_to_markdown (converters.py).  BeautifulSoup(html, "html.parser")   *)
(* is modelled as a tokenizer and a tree builder: a start tag opens an     *)
(* element (a void element has no content), an end tag closes the most     *)
(* recent open element of that name, with the elements opened inside it,   *)
(* and is ignored when there is none; nothing is closed implicitly.        *)
(* A node is [name, href, text, children]; a text node has the name <<>>.  *)
(***************************************************************************)

LetterChars ==
    {"a", "b", "c", "d", "e", "f", "g", "h", "i", "j", "k", "l", "m", "n", "o", "p", "q",
     "r", "s", "t", "u", "v", "w", "x", "y", "z",
     "A", "B", "C", "D", "E", "F", "G", "H", "I", "J", "K", "L", "M", "N", "O", "P", "Q",
     "R", "S", "T", "U", "V", "W", "X", "Y", "Z"}

\* the elements html.parser gives no content
VoidNames == {NameBr, <<"h", "r">>, <<"i", "m", "g">>}

HrefEq == <<"h", "r", "e", "f", "=", "\"">>

\* the tag name at the start of the text between < and >
TagName(inner) ==
    LET ends == {j \in 1..Len(inner) : inner[j] \in SpaceChars \cup {"/"}} IN
    IF ends = {} THEN inner ELSE SubSeq(inner, 1, Min(ends) - 1)

\* the value of href="..." in the text between < and > (<<>>: none)
TagHref(inner) ==
    LET at == IndexOfSub(inner, HrefEq)
        from == at + Len(HrefEq)
    IN IF at = 0 THEN <<>> ELSE SubSeq(inner, from, from + RunLength(inner, from, "\"") - 1)

\* the events of html.parser: start tags, end tags and the text between them; a
\* "<" that starts no tag is text
RECURSIVE Tokenize(_)
Tokenize(s) ==
    IF s = <<>> THEN <<>>
    ELSE LET gt == FirstIndex(s, ">") IN
         IF s[1] = "<" /\ Len(s) >= 2 /\ s[2] \in LetterChars /\ gt > 0
         THEN <<[kind |-> "start", name |-> TagName(SubSeq(s, 2, gt - 1)),
                 arg |-> TagHref(SubSeq(s, 2, gt - 1))]>>
                  \o Tokenize(SubSeq(s, gt + 1, Len(s)))
         ELSE IF s[1] = "<" /\ Len(s) >= 3 /\ s[2] = "/" /\ s[3] \in LetterChars /\ gt > 0
         THEN <<[kind |-> "end", name |-> StripChars(SubSeq(s, 3, gt - 1)), arg |-> <<>>]>>
                  \o Tokenize(SubSeq(s, gt + 1, Len(s)))
         ELSE LET n == 1 + RunLength(s, 2, "<") IN
              <<[kind |-> "text", name |-> <<>>, arg |-> SubSeq(s, 1, n)]>>
                  \o Tokenize(SubSeq(s, n + 1, Len(s)))

\* adjacent text events make one string
RECURSIVE MergeText(_)
MergeText(toks) ==
    IF Len(toks) < 2 THEN toks
    ELSE IF toks[1].kind = "text" /\ toks[2].kind = "text"
    THEN MergeText(<<[kind |-> "text", name |-> <<>>, arg |-> toks[1].arg \o toks[2].arg]>>
                       \o SubSeq(toks, 3, Len(toks)))
    ELSE <<toks[1]>> \o MergeText(Tail(toks))

\* BeautifulSoup.endData: a string of ASCII spaces only becomes "\n" or " "
CollapseSpace(text) ==
    IF \A i \in 1..Len(text) : text[i] \in SpaceChars
    THEN (IF \E i \in 1..Len(text) : text[i] = "\n" THEN <<"\n">> ELSE <<" ">>)
    ELSE text

TextNode(text) == [name |-> <<>>, href |-> <<>>, text |-> text, children |-> <<>>]

\* the nodes from token i on, inside the open elements named in stack (innermost
\* last): [nodes, next], next being the first token not consumed
RECURSIVE ParseNodes(_, _, _, _)
ParseNodes(toks, i, stack, acc) ==
    IF i > Len(toks) THEN [nodes |-> acc, next |-> i]
    ELSE LET t == toks[i] IN
         IF t.kind = "text"
         THEN ParseNodes(toks, i + 1, stack, Append(acc, TextNode(CollapseSpace(t.arg))))
         ELSE IF t.kind = "start" /\ t.name \in VoidNames
         THEN ParseNodes(toks, i + 1, stack,
                         Append(acc, [name |-> t.name, href |-> t.arg, text |-> <<>>,
                                      children |-> <<>>]))
         ELSE IF t.kind = "start"
         THEN LET sub == ParseNodes(toks, i + 1, Append(stack, t.name), <<>>) IN
              ParseNodes(toks, sub.next, stack,
                         Append(acc, [name |-> t.name, href |-> t.arg, text |-> <<>>,
                                      children |-> sub.nodes]))
         ELSE \* an end tag
              IF stack # <<>> /\ stack[Len(stack)] = t.name
              THEN [nodes |-> acc, next |-> i + 1]
              ELSE IF \E k \in 1..Len(stack) : stack[k] = t.name
              THEN [nodes |-> acc, next |-> i]
              ELSE ParseNodes(toks, i + 1, stack, acc)

\* soup.children
ParseHtml(s) == ParseNodes(MergeText(Tokenize(s)), 1, <<>>, <<>>).nodes

\* Tag.get_text(): the strings below the node, concatenated
RECURSIVE GetText(_)
GetText(node) ==
    IF node.name = <<>> THEN node.text
    ELSE Concat([k \in 1..Len(node.children) |-> GetText(node.children[k])])

\* _convert_element with a bold element wrapped in single asterisks
RECURSIVE ConvertElementThinBold(_)
ConvertElementThinBold(element) ==
    IF element.name = <<>> THEN element.text
    ELSE Concat([k \in 1..Len(element.children) |->
            LET child == element.children[k] IN
            IF child.name = <<>> THEN child.text
            ELSE IF child.name = NameB THEN <<"*">> \o GetText(child) \o <<"*">>
            ELSE IF child.name = NameI THEN <<"*">> \o GetText(child) \o <<"*">>
            ELSE ConvertElementThinBold(child)])

\* _convert_element
RECURSIVE ConvertElement(_)
ConvertElement(element) ==
    IF element.name = <<>> THEN element.text
    ELSE Concat([k \in 1..Len(element.children) |->
            LET child == element.children[k] IN
            IF child.name = <<>> THEN child.text
            ELSE IF child.name = NameB THEN <<"*", "*">> \o GetText(child) \o <<"*", "*">>
            ELSE IF child.name = NameI THEN <<"*">> \o GetText(child) \o <<"*">>
            ELSE IF child.name = NameU THEN GetText(child)
            ELSE IF child.name = NameStrike
                 THEN <<"~", "~">> \o GetText(child) \o <<"~", "~">>
            ELSE IF child.name = NameA
                 THEN <<"[">> \o GetText(child) \o <<"]", "(">> \o child.href \o <<")">>
            ELSE IF child.name = NameBr THEN <<"\n">>
            ELSE ConvertElement(child)])

\* str(i) for the item numbers
RECURSIVE IntChars(_)
IntChars(n) ==
    LET d == <<"0", "1", "2", "3", "4", "5", "6", "7", "8", "9">> IN
    IF n < 10 THEN <<d[n + 1]>> ELSE IntChars(n \div 10) \o <<d[(n % 10) + 1]>>

\* _convert_list: one line per li child
ConvertList(element) ==
    LET items == SelectSeq(element.children, LAMBDA c : c.name = NameLi) IN
    Join([i \in 1..Len(items) |->
             (IF element.name = NameOl THEN IntChars(i) \o <<".", " ">> ELSE <<"-", " ">>)
                 \o StripChars(GetText(items[i]))],
         <<"\n">>)

\* the list html_to_markdown joins: one entry per top-level node it converts
RECURSIVE MarkdownParts(_, _)
MarkdownParts(nodes, strHasGetText) ==
    IF nodes = <<>> THEN <<>>
    ELSE LET element == nodes[1]
             rest == MarkdownParts(Tail(nodes), strHasGetText)
         IN IF element.name = NameDiv THEN <<ConvertElement(element)>> \o rest
            ELSE IF element.name \in {NameUl, NameOl} THEN <<ConvertList(element)>> \o rest
            ELSE IF element.name # <<>> \/ strHasGetText THEN <<GetText(element)>> \o rest
            ELSE rest

\* html_to_markdown as a function of its argument
HtmlToMarkdown(html_content, strHasGetText) ==
    Join(MarkdownParts(ParseHtml(html_content), strHasGetText), <<"\n", "\n">>)

(***************************************************************************)
(* extract_text_from_note_data as a state machine.                         *)
(***************************************************************************)

ExInit ==
    /\ data \in Blobs
    /\ for_display \in BOOLEAN
    /\ exPc = "start"
    /\ exRaised = FALSE
    /\ decompressed = <<>>
    /\ pos = 1
    /\ current_text = <<>>
    /\ text_parts = <<>>
    /\ all_lines = <<>>
    /\ line_i = 1
    /\ filtered_lines = <<>>
    /\ junk_count = 0
    /\ exResult = <<>>

\* CaughtByExtract catching gzip.BadGzipFile alone
CaughtBadGzipOnly(err) == err = "BadGzipFile"

\* the exceptions the try block around gzip.decompress catches (except Exception)
CaughtByExtract(err) == err \in {"BadGzipFile", "EOFError", "zlib.error"}

\* if not data: return ""; try: gzip.decompress(data) except Exception: return ""
ExStart ==
    /\ UNCHANGED exOther
    /\ exPc = "start"
    /\ LET z == GzipDecompress(data.bytes) IN
       IF ~data.present \/ data.bytes = <<>>
       THEN exPc' = "done" /\ UNCHANGED <<decompressed, exRaised>>
       ELSE IF z.err # "none"
       THEN /\ exPc' = "done"
            /\ exRaised' = ~CaughtByExtract(z.err)
            /\ UNCHANGED decompressed
       ELSE /\ exPc' = "scan"
            /\ decompressed' = z.out
            /\ UNCHANGED exRaised
    /\ UNCHANGED <<data, for_display, pos, current_text, text_parts, all_lines, line_i,
                   filtered_lines, junk_count, exResult>>

\* one iteration of: for byte in decompressed
ExScanByte ==
    /\ UNCHANGED exOther
    /\ exPc = "scan"
    /\ pos <= Len(decompressed)
    /\ LET byte == decompressed[pos] IN
       IF AcceptedByte(byte)
       THEN /\ current_text' = Append(current_text, byte)
            /\ UNCHANGED text_parts
       ELSE /\ text_parts' = FlushRun(text_parts, current_text)
            /\ current_text' = <<>>
    /\ pos' = pos + 1
    /\ UNCHANGED <<data, for_display, exPc, exRaised, decompressed, all_lines, line_i,
                   filtered_lines, junk_count, exResult>>

\* the remaining text after the loop, then the branch on for_display
ExScanEnd ==
    /\ UNCHANGED exOther
    /\ exPc = "scan"
    /\ pos > Len(decompressed)
    /\ text_parts' = FlushRun(text_parts, current_text)
    /\ exPc' = IF for_display THEN "split" ELSE "search"
    /\ UNCHANGED <<data, for_display, exRaised, decompressed, pos, current_text,
                   all_lines, line_i, filtered_lines, junk_count, exResult>>

\* return " ".join(text_parts)
ExSearchJoin ==
    /\ UNCHANGED exOther
    /\ exPc = "search"
    /\ exResult' = Join(text_parts, <<32>>)
    /\ exPc' = "done"
    /\ UNCHANGED <<data, for_display, exRaised, decompressed, pos, current_text,
                   text_parts, all_lines, line_i, filtered_lines, junk_count>>

\* all_lines.extend(part.split("\n")) for every part
ExSplitLines ==
    /\ UNCHANGED exOther
    /\ exPc = "split"
    /\ all_lines' = SplitParts(text_parts)
    /\ line_i' = 1
    /\ filtered_lines' = <<>>
    /\ junk_count' = 0
    /\ exPc' = "filter"
    /\ UNCHANGED <<data, for_display, exRaised, decompressed, pos, current_text,
                   text_parts, exResult>>

\* one iteration of: for line in all_lines
ExFilterLine ==
    /\ UNCHANGED exOther
    /\ exPc = "filter"
    /\ line_i <= Len(all_lines)
    /\ LET line == all_lines[line_i]
           verdict == LineVerdict(line)
       IN CASE verdict = "skip" ->
                   /\ line_i' = line_i + 1
                   /\ UNCHANGED <<junk_count, filtered_lines, exPc>>
            [] verdict = "junk" ->
                   /\ junk_count' = junk_count + 1
                   /\ IF JunkStop(junk_count + 1)
                      THEN exPc' = "join" /\ UNCHANGED line_i
                      ELSE line_i' = line_i + 1 /\ UNCHANGED exPc
                   /\ UNCHANGED filtered_lines
            [] verdict = "keep" ->
                   /\ junk_count' = 0
                   /\ filtered_lines' = Append(filtered_lines, line)
                   /\ line_i' = line_i + 1
                   /\ UNCHANGED exPc
    /\ UNCHANGED <<data, for_display, exRaised, decompressed, pos, current_text,
                   text_parts, all_lines, exResult>>

\* the line loop runs out
ExFilterEnd ==
    /\ UNCHANGED exOther
    /\ exPc = "filter"
    /\ line_i > Len(all_lines)
    /\ exPc' = "join"
    /\ UNCHANGED <<data, for_display, exRaised, decompressed, pos, current_text,
                   text_parts, all_lines, line_i, filtered_lines, junk_count, exResult>>

\* "\n".join(filtered_lines), the placeholder, strip
ExDisplayJoin ==
    /\ UNCHANGED exOther
    /\ exPc = "join"
    /\ exResult' = Strip(ReplaceObjectChar(Join(filtered_lines, <<LF>>)))
    /\ exPc' = "done"
    /\ UNCHANGED <<data, for_display, exRaised, decompressed, pos, current_text,
                   text_parts, all_lines, line_i, filtered_lines, junk_count>>

ExNext ==
    \/ ExStart
    \/ ExScanByte
    \/ ExScanEnd
    \/ ExSearchJoin
    \/ ExSplitLines
    \/ ExFilterLine
    \/ ExFilterEnd
    \/ ExDisplayJoin

\* the extractor not running
ExIdle ==
    /\ data = [present |-> FALSE, bytes |-> <<>>]
    /\ for_display = FALSE
    /\ exPc = "idle"
    /\ exRaised = FALSE
    /\ decompressed = <<>>
    /\ pos = 1
    /\ current_text = <<>>
    /\ text_parts = <<>>
    /\ all_lines = <<>>
    /\ line_i = 1
    /\ filtered_lines = <<>>
    /\ junk_count = 0
    /\ exResult = <<>>

\* format_date not running
DateIdle ==
    /\ timestamp = [present |-> FALSE, days |-> 0, secs |-> 0]
    /\ datePc = "idle"
    /\ dateResult = [unknown |-> TRUE]

\* create_note not running
EscIdle ==
    /\ escText = <<>>
    /\ escPc = "idle"
    /\ escaped = <<>>
    /\ script = <<>>
    /\ scriptRead = [value |-> <<>>, closed |-> FALSE, rest |-> <<>>]

\* the edit command not running
EditIdle ==
    /\ note_body = <<>>
    /\ note_mod = 0
    /\ external_edits = 0
    /\ editPc = "idle"
    /\ initial_mod_date = -1
    /\ current_html = <<>>
    /\ current_markdown = <<>>
    /\ new_markdown = <<>>
    /\ current_mod_date = -1
    /\ confirm_answer = "none"
    /\ calls = <<>>
    /\ edit_output = <<>>

\* the codec not running
CodecIdle ==
    /\ md_text = <<>>
    /\ text_has_get_text = FALSE
    /\ encPc = "idle"
    /\ lines = <<>>
    /\ line_no = 1
    /\ html_lines = <<>>
    /\ in_ul = FALSE
    /\ in_ol = FALSE
    /\ html = <<>>
    /\ decoded = <<>>
    /\ html2 = <<>>

InitExtract == ExInit /\ CodecIdle /\ DateIdle /\ EscIdle /\ EditIdle

SpecExtract == InitExtract /\ [][ExNext]_vars

(***************************************************************************)
(* The codec run: markdown_to_html line by line, then html_to_markdown on  *)
(* its output, then markdown_to_html on the decoded text.                  *)
(***************************************************************************)

MaxMdLines == 3

\* "", "- a", "* b", "1. c", "# T", "x", "<ul>", "**b**"
MdLinePool ==
    { <<>>,
      <<"-", " ", "a">>,
      <<"*", " ", "b">>,
      <<"1", ".", " ", "c">>,
      <<"#", " ", "T">>,
      <<"x">>,
      <<"<", "u", "l", ">">>,
      <<"*", "*", "b", "*", "*">> }

RECURSIVE MdLineSeqs(_)
MdLineSeqs(n) ==
    IF n = 0 THEN { <<>> }
    ELSE LET shorter == MdLineSeqs(n - 1) IN
         shorter \cup { Append(s, l) : s \in { t \in shorter : Len(t) = n - 1 }, l \in MdLinePool }

\* "# Title\n\n- item1\n- item2\n\nSome **bold** text."
RoundTripLines ==
    << <<"#", " ", "T", "i", "t", "l", "e">>,
       <<>>,
       <<"-", " ", "i", "t", "e", "m", "1">>,
       <<"-", " ", "i", "t", "e", "m", "2">>,
       <<>>,
       <<"S", "o", "m", "e", " ", "*", "*", "b", "o", "l", "d", "*", "*", " ",
         "t", "e", "x", "t", ".">> >>

RoundTripDoc == Join(RoundTripLines, <<"\n">>)

\* "**bold *and italic***"
BoldItalicDoc ==
    <<"*", "*", "b", "o", "l", "d", " ", "*", "a", "n", "d", " ",
      "i", "t", "a", "l", "i", "c", "*", "*", "*">>

\* "**a _b_**": encodes to an italic element inside a bold one
NestedDoc == <<"*", "*", "a", " ", "_", "b", "_", "*", "*">>

MdTexts ==
    { Join(ls, <<"\n">>) : ls \in MdLineSeqs(MaxMdLines) }
        \cup {RoundTripDoc, BoldItalicDoc, NestedDoc}

CodecInit ==
    /\ md_text \in MdTexts
    /\ text_has_get_text \in BOOLEAN
    /\ encPc = "start"
    /\ lines = <<>>
    /\ line_no = 1
    /\ html_lines = <<>>
    /\ in_ul = FALSE
    /\ in_ol = FALSE
    /\ html = <<>>
    /\ decoded = <<>>
    /\ html2 = <<>>

\* if not text: return ""; lines = text.split("\n"); the loop state
EncBegin ==
    /\ UNCHANGED codecOther
    /\ encPc = "start"
    /\ IF md_text = <<>>
       THEN /\ encPc' = "encoded"
            /\ UNCHANGED lines
       ELSE /\ encPc' = "loop"
            /\ lines' = SplitOn(md_text, "\n")
    /\ html_lines' = EncStart.html_lines
    /\ in_ul' = EncStart.in_ul
    /\ in_ol' = EncStart.in_ol
    /\ line_no' = 1
    /\ UNCHANGED <<md_text, text_has_get_text, html, decoded, html2>>

\* one iteration of: for line in lines
EncLoop ==
    /\ UNCHANGED codecOther
    /\ encPc = "loop"
    /\ line_no <= Len(lines)
    /\ LET st == EncodeLine([html_lines |-> html_lines, in_ul |-> in_ul, in_ol |-> in_ol],
                            lines[line_no])
       IN /\ html_lines' = st.html_lines
          /\ in_ul' = st.in_ul
          /\ in_ol' = st.in_ol
    /\ line_no' = line_no + 1
    /\ UNCHANGED <<md_text, text_has_get_text, encPc, lines, html, decoded, html2>>

\* close the remaining open lists; return "\n".join(html_lines)
EncFinish ==
    /\ UNCHANGED codecOther
    /\ encPc = "loop"
    /\ line_no > Len(lines)
    /\ html_lines' = CloseLists([html_lines |-> html_lines, in_ul |-> in_ul, in_ol |-> in_ol])
    /\ html' = Join(html_lines', <<"\n">>)
    /\ encPc' = "encoded"
    /\ UNCHANGED <<md_text, text_has_get_text, lines, line_no, in_ul, in_ol, decoded, html2>>

\* html_to_markdown on the encoder's output
Decode ==
    /\ UNCHANGED codecOther
    /\ encPc = "encoded"
    /\ decoded' = HtmlToMarkdown(html, text_has_get_text)
    /\ encPc' = "decoded"
    /\ UNCHANGED <<md_text, text_has_get_text, lines, line_no, html_lines, in_ul, in_ol,
                   html, html2>>

\* markdown_to_html on the decoded text
ReEncode ==
    /\ UNCHANGED codecOther
    /\ encPc = "decoded"
    /\ html2' = MarkdownToHtml(decoded)
    /\ encPc' = "done"
    /\ UNCHANGED <<md_text, text_has_get_text, lines, line_no, html_lines, in_ul, in_ol,
                   html, decoded>>

CodecNext ==
    \/ EncBegin
    \/ EncLoop
    \/ EncFinish
    \/ Decode
    \/ ReEncode

InitCodec == CodecInit /\ ExIdle /\ DateIdle /\ EscIdle /\ EditIdle

SpecCodec == InitCodec /\ [][CodecNext]_vars

(***************************************************************************)
(* Properties of the codec.                                                *)
(***************************************************************************)

Encoded == encPc \in {"encoded", "decoded", "done"}

\* the tags of an HTML text in order, as <<"start" or "end", name>>
TagStructure(h) ==
    LET tags == SelectSeq(Tokenize(h), LAMBDA t : t.kind # "text") IN
    [k \in 1..Len(tags) |-> <<tags[k].kind, tags[k].name>>]

CountLines(ls, l) == Cardinality({i \in 1..Len(ls) : ls[i] = l})

\* as many <ul> as </ul> and as many <ol> as </ol> in the text h
C2_Balanced(h) ==
    /\ CountSub(h, OpenTag(NameUl)) = CountSub(h, CloseTag(NameUl))
    /\ CountSub(h, OpenTag(NameOl)) = CountSub(h, CloseTag(NameOl))

\* the input holds the text of a list container tag
C2_HasListTagText ==
    \E t \in {OpenTag(NameUl), CloseTag(NameUl), OpenTag(NameOl), CloseTag(NameOl)} :
        IndexOfSub(md_text, t) > 0

\* C2 as stated: for every input, also one whose content holds list-tag text, the
\* HTML has as many <ul> as </ul> tags and as many <ol> as </ol> tags.
C2_ListTagsBalanced == Encoded => C2_Balanced(html)

\* C2 amended: the container tags the encoder emits are balanced for every input
\* (as many output lines <ul> as </ul>, as many <ol> as </ol>), and the tag
\* counts of the HTML are equal whenever the input holds no list-tag text.
C2_EmittedListTagsBalanced ==
    Encoded =>
        /\ CountLines(html_lines, OpenTag(NameUl)) = CountLines(html_lines, CloseTag(NameUl))
        /\ CountLines(html_lines, OpenTag(NameOl)) = CountLines(html_lines, CloseTag(NameOl))
        /\ ~C2_HasListTagText => C2_Balanced(html)

\* C2 witness: an input without tag text whose list was still open at the end of
\* the input has been encoded, with two unordered lists and an ordered one.
C2_Witness ==
    /\ Encoded
    /\ ~C2_HasListTagText
    /\ in_ul
    /\ CountSub(html, OpenTag(NameUl)) = 2
    /\ CountSub(html, OpenTag(NameOl)) = 1
    /\ C2_Balanced(html)

\* C3: the inline conversion of **bold *and italic*** is a bold element whose
\* content is italic-wrapped (here inside the paragraph of its line).
C3_BoldWrapperKept ==
    (Encoded /\ md_text = BoldItalicDoc) =>
        TagStructure(html) =
            << <<"start", NameDiv>>, <<"start", NameB>>, <<"start", NameI>>,
               <<"end", NameI>>, <<"end", NameB>>, <<"end", NameDiv>> >>

\* the elements the claim counts as visible structure
C6_Visible ==
    {NameH1, NameH2, NameH3, NameUl, NameOl, NameLi, NameDiv, NameB, NameI, NameCode, NameA}

C6_Structure(h) == SelectSeq(TagStructure(h), LAMBDA t : t[2] \in C6_Visible)

\* C6: encode(decode(encode(x))) has the block and inline elements of encode(x),
\* in the same order and nesting.
C6_IdempotentOnOwnOutput ==
    encPc = "done" => C6_Structure(html2) = C6_Structure(html)

\* the non-empty lines of a text
C7_Lines(t) == SelectSeq(SplitOn(t, "\n"), LAMBDA l : StripChars(l) # <<>>)

\* C7: the round-trip document encodes to one heading, one unordered list of two
\* items and one paragraph holding a bold fragment, and its HTML decodes to the
\* heading text, the two items in order and the paragraph with **bold**.
C7_RoundTrip ==
    (md_text = RoundTripDoc /\ encPc \in {"decoded", "done"}) =>
        /\ TagStructure(html) =
               << <<"start", NameH1>>, <<"end", NameH1>>, <<"start", NameBr>>,
                  <<"start", NameUl>>, <<"start", NameLi>>, <<"end", NameLi>>,
                  <<"start", NameLi>>, <<"end", NameLi>>, <<"end", NameUl>>,
                  <<"start", NameBr>>, <<"start", NameDiv>>, <<"start", NameB>>,
                  <<"end", NameB>>, <<"end", NameDiv>> >>
        /\ StartsWith(html, Wrap(NameH1, <<"T", "i", "t", "l", "e">>))
        /\ C7_Lines(decoded) =
               << <<"T", "i", "t", "l", "e">>, RoundTripLines[3], RoundTripLines[4],
                  RoundTripLines[6] >>

\* C7 witness: the round-trip document has been encoded and decoded, and the
\* decoded text holds **bold**.
C7_Witness ==
    /\ md_text = RoundTripDoc
    /\ encPc = "done"
    /\ IndexOfSub(html, Wrap(NameB, <<"b", "o", "l", "d">>)) > 0
    /\ IndexOfSub(decoded, <<"*", "*", "b", "o", "l", "d", "*", "*">>) > 0

\* the kind of an input line, in the claim's words
C13_Kind(line) ==
    LET t == StripChars(line) IN
    IF t = <<>> THEN "blank"
    ELSE IF StartsWith(t, <<"-", " ">>) \/ StartsWith(t, <<"*", " ">>) THEN "ul"
    ELSE IF OlPrefixLen(t) > 0 THEN "ol"
    ELSE "other"

\* what an output line is: a container tag, a line break, a list item or a block
C13_Shape(l) ==
    IF l \in {OpenTag(NameUl), CloseTag(NameUl), OpenTag(NameOl), CloseTag(NameOl),
              OpenTag(NameBr)}
    THEN l
    ELSE IF StartsWith(l, OpenTag(NameLi)) THEN <<"l", "i">>
    ELSE <<"b", "l", "o", "c", "k">>

C13_Container(kind) == IF kind = "ul" THEN NameUl ELSE NameOl

\* the output lines the k-th input line must produce, from the kinds of the
\* lines k - 1 and k alone
C13_Expected(ls, k) ==
    LET kind == C13_Kind(ls[k])
        before == IF k = 1 THEN "none" ELSE C13_Kind(ls[k - 1])
        closing == IF before \in {"ul", "ol"} /\ before # kind
                   THEN <<CloseTag(C13_Container(before))>> ELSE <<>>
        opening == IF kind \in {"ul", "ol"} /\ before # kind
                   THEN <<OpenTag(C13_Container(kind))>> ELSE <<>>
        body == IF kind = "blank" THEN <<OpenTag(NameBr)>>
                ELSE IF kind \in {"ul", "ol"} THEN << <<"l", "i">> >>
                ELSE << <<"b", "l", "o", "c", "k">> >>
    IN closing \o opening \o body

\* C13: an open list is closed as soon as a line that is no item of its type
\* comes, before anything else that line produces; a container is opened only by
\* the first item line of a run, so a run of item lines of one type gives one
\* container with one <li> per line; a blank line gives one <br>.
C13_ListsFollowLines ==
    encPc = "loop" =>
        /\ [k \in 1..Len(html_lines) |-> C13_Shape(html_lines[k])]
               = Concat([k \in 1..(line_no - 1) |-> C13_Expected(lines, k)])
        /\ in_ul <=> (line_no > 1 /\ C13_Kind(lines[line_no - 1]) = "ul")
        /\ in_ol <=> (line_no > 1 /\ C13_Kind(lines[line_no - 1]) = "ol")

\* C13 witness: two unordered items, then an ordered item have been read; the
\* unordered list was closed before the ordered one was opened.
C13_Witness ==
    /\ encPc = "loop"
    /\ line_no = 4
    /\ in_ol
    /\ [k \in 1..Len(html_lines) |-> C13_Shape(html_lines[k])]
           = <<OpenTag(NameUl), <<"l", "i">>, <<"l", "i">>, CloseTag(NameUl),
               OpenTag(NameOl), <<"l", "i">>>>

\* the container open after the output lines ls, read from the state open
\* ("none", "ul", "ol"); "bad" when a container tag or a <li> is out of place
RECURSIVE C16_Open(_, _)
C16_Open(ls, open) ==
    IF ls = <<>> \/ open = "bad" THEN open
    ELSE LET l == ls[1]
             next == IF l = OpenTag(NameUl) THEN (IF open = "none" THEN "ul" ELSE "bad")
                     ELSE IF l = OpenTag(NameOl) THEN (IF open = "none" THEN "ol" ELSE "bad")
                     ELSE IF l = CloseTag(NameUl) THEN (IF open = "ul" THEN "none" ELSE "bad")
                     ELSE IF l = CloseTag(NameOl) THEN (IF open = "ol" THEN "none" ELSE "bad")
                     ELSE IF StartsWith(l, OpenTag(NameLi))
                          THEN (IF open = "none" THEN "bad" ELSE open)
                     ELSE open
         IN C16_Open(Tail(ls), next)

\* C16: the two list flags are never on together, and the list tags of the
\* output are never nested or interleaved: a container is opened only while none
\* is open, closed only while it is the open one, and every <li> is inside one.
C16_OneListAtATime ==
    /\ ~(in_ul /\ in_ol)
    /\ encPc \in {"loop", "encoded", "decoded", "done"} =>
           C16_Open(html_lines, "none")
               = (IF encPc # "loop" THEN "none"
                  ELSE IF in_ul THEN "ul" ELSE IF in_ol THEN "ol" ELSE "none")

\* C16 witness: an ordered item came while the unordered list was open, and an
\* unordered item after it; the encoding has ended with three closed lists.
C16_Witness ==
    /\ encPc = "encoded"
    /\ CountLines(html_lines, OpenTag(NameUl)) = 2
    /\ CountLines(html_lines, OpenTag(NameOl)) = 1
    /\ html_lines[4] = OpenTag(NameOl)
    /\ C16_Open(html_lines, "none") = "none"

\* the inline mapping of the claim, applied at every depth
RECURSIVE C14_Inline(_)
C14_Inline(node) ==
    LET inner == Concat([k \in 1..Len(node.children) |-> C14_Inline(node.children[k])]) IN
    IF node.name = <<>> THEN node.text
    ELSE IF node.name = NameB THEN <<"*", "*">> \o inner \o <<"*", "*">>
    ELSE IF node.name = NameI THEN <<"*">> \o inner \o <<"*">>
    ELSE IF node.name = NameStrike THEN <<"~", "~">> \o inner \o <<"~", "~">>
    ELSE IF node.name = NameA THEN <<"[">> \o inner \o <<"]", "(">> \o node.href \o <<")">>
    ELSE IF node.name = NameBr THEN <<"\n">>
    ELSE inner

\* C14: the text decoded from a block is the inline mapping applied at every
\* nesting depth, so markup inside a bold, italic or link element is converted
\* too (here: for an HTML that is one div).
C14_RecursiveInline ==
    encPc \in {"decoded", "done"} =>
        LET nodes == ParseHtml(html) IN
        (Len(nodes) = 1 /\ nodes[1].name = NameDiv) => decoded = C14_Inline(nodes[1])

C15_IsBlock(node) == node.name \in {NameDiv, NameUl, NameOl}

C15_IsSpace(node) == node.name = <<>> /\ \A i \in 1..Len(node.text) : node.text[i] \in SpaceChars

\* the markup paragraph of one block: a list gives one line per item, numbered
\* from 1 or prefixed with "- "
C15_Paragraph(block) ==
    IF block.name = NameDiv THEN ConvertElement(block)
    ELSE LET items == SelectSeq(block.children, LAMBDA c : c.name = NameLi) IN
         Join([i \in 1..Len(items) |->
                  (IF block.name = NameOl THEN IntChars(i) \o <<".", " ">> ELSE <<"-", " ">>)
                      \o StripChars(GetText(items[i]))],
              <<"\n">>)

\* C15: for an HTML whose top level holds div and list blocks (with nothing but
\* white space between them) the decoded text is one paragraph per block, in
\* order, with one blank line between two paragraphs.
C15_OneParagraphPerBlock ==
    encPc \in {"decoded", "done"} =>
        LET nodes == ParseHtml(html)
            blocks == SelectSeq(nodes, C15_IsBlock)
        IN (\A k \in 1..Len(nodes) : C15_IsBlock(nodes[k]) \/ C15_IsSpace(nodes[k])) =>
               decoded = Join([k \in 1..Len(blocks) |-> C15_Paragraph(blocks[k])],
                              <<"\n", "\n">>)

(***************************************************************************)
(* Properties of the extractor.                                            *)
(***************************************************************************)

\* a gzip stream, stated on the bytes: members, each a header, a stored block and
\* the trailer of its payload, with zero padding allowed after a member
RECURSIVE IsGzipStream(_)
IsGzipStream(bs) ==
    \E n \in 0..(Len(bs) - 7) :
        /\ SubSeq(bs, 1, n + 7) = GzipCompress(SubSeq(bs, 6, 5 + n))
        /\ LET rest == LStripZeros(SubSeq(bs, n + 8, Len(bs)))
           IN rest = <<>> \/ IsGzipStream(rest)

NotGzip == ~data.present \/ ~IsGzipStream(data.bytes)

\* C1: for every blob that is not a valid gzip stream (the absent and the empty
\* blob included) the function returns the empty string in both modes and no
\* exception leaves it.
C1_InvalidGzipGivesEmpty ==
    (exPc = "done" /\ NotGzip) => (exResult = <<>> /\ ~exRaised)

\* C1 witness: a damaged stream that still starts like a gzip member has been
\* answered with the empty string in Display mode.
C1_Witness ==
    /\ exPc = "done"
    /\ for_display
    /\ data.present
    /\ Len(data.bytes) > 7
    /\ StartsWith(data.bytes, <<31, 139, 8>>)
    /\ ~IsGzipStream(data.bytes)
    /\ exResult = <<>>
    /\ ~exRaised

\* the claim's words for the lines the earlier rules drop
C4_Exempt(line) ==
    LET s == Strip(line) IN
    \/ s = <<>>
    \/ s \in FontNames
    \/ MatchesUuid(s)
    \/ \E p \in UtiPrefixes : StartsWith(s, p)

\* the claim's words for a junk line: at most 10 characters, at most half of them
\* alphabetic
C4_Junk(line) ==
    LET s == Strip(line) IN
    ~C4_Exempt(line) /\ Len(s) <= 10 /\ 2 * AlphaCount(s) <= Len(s)

C4_LineStep ==
    (exPc = "filter" /\ line_i <= Len(all_lines)) =>
        LET line == all_lines[line_i] IN
        /\ C4_Junk(line) =>
               (junk_count' = junk_count + 1 /\ filtered_lines' = filtered_lines)
        /\ (~C4_Junk(line) /\ ~C4_Exempt(line)) =>
               (junk_count' = 0 /\ filtered_lines' = Append(filtered_lines, line))
        /\ (exPc' = "join") <=> (junk_count' > 3)

C4_Stopped == junk_count > 3 => filtered_lines' = filtered_lines

C4_Scenario ==
    (exPc = "done" /\ for_display /\ data.present
        /\ data.bytes = GzipCompress(JunkScenario)) =>
        /\ all_lines = JunkScenarioLines
        /\ junk_count = 4
        /\ line_i = 5
        /\ filtered_lines = << <<111, 107>> >>
        /\ exResult = <<111, 107>>

C5_IsInterleaving(o, sep) ==
    /\ data.present
    /\ Len(decompressed) = Len(InterleavedPayload(1, 2, 0))
    /\ decompressed = InterleavedPayload(o[1], o[2], sep)
    /\ data.bytes = GzipCompress(decompressed)

\* C5 as stated: every order of "Hello world", the five noise runs and the UUID
\* line gives exactly "Hello world" in Display mode.
C5_AnyOrder ==
    (exPc = "done" /\ for_display) =>
        \A o \in Orders, sep \in SepBytes :
            C5_IsInterleaving(o, sep) => exResult = HelloWorld

\* C5 amended: the result is exactly "Hello world" when at most three of the
\* noise runs come before it; when four or five do, the counter stops the scan
\* before "Hello world" and the result is empty.
C5_HelloUnlessFourNoiseBefore ==
    (exPc = "done" /\ for_display) =>
        \A o \in Orders, sep \in SepBytes :
            C5_IsInterleaving(o, sep) =>
                exResult = (IF NoiseBefore(o[1], o[2]) <= 3 THEN HelloWorld ELSE <<>>)

\* C5 witness: three noise runs and the UUID line come before "Hello world",
\* two noise runs after it, and the result is "Hello world".
C5_Witness ==
    /\ exPc = "done"
    /\ for_display
    /\ \E sep \in SepBytes : C5_IsInterleaving(<<5, 2>>, sep)
    /\ exResult = HelloWorld

\* the decompressed bytes are UTF-8 text: printable ASCII, newlines and U+FFFC
C11_DecodedText == Utf8DecodeIgnore(decompressed)

C11_ObjectChars(t) == Cardinality({i \in 1..Len(t) : t[i] = ObjectReplacement})

C11_IsText ==
    /\ \A i \in 1..Len(C11_DecodedText) :
           LET c == C11_DecodedText[i] IN (32 <= c /\ c <= 126) \/ c = LF \/ c = ObjectReplacement
    /\ Len(decompressed) = Len(C11_DecodedText) + 2 * C11_ObjectChars(C11_DecodedText)

\* no line of the text is noise, and the lines with U+FFFC are lines the filter keeps
C11_LinesKept ==
    LET ls == SplitOn(C11_DecodedText, LF) IN
    \A k \in 1..Len(ls) :
        /\ LineVerdict(ls[k]) # "junk"
        /\ C11_ObjectChars(ls[k]) > 0 => LineVerdict(ls[k]) = "keep"

\* C11: in Display mode every U+FFFC of a text line of the blob is in the output
\* as [Attachment], and the output holds no U+FFFC.
C11_AttachmentPlaceholder ==
    (exPc = "done" /\ for_display /\ data.present /\ decompressed # <<>>
        /\ C11_IsText /\ C11_LinesKept) =>
        /\ CountSub(exResult, AttachmentToken) = C11_ObjectChars(C11_DecodedText)
        /\ C11_ObjectChars(exResult) = 0

\* the accepted bytes, as the claim lists them
C12_Accepted(b) == b \in (32..126) \cup {9, 10, 13} \cup (192..255)

\* the maximal runs of accepted bytes of bs, as <<first, last>>, stated on the bytes
C12_Runs(bs) ==
    LET ok == {k \in 1..Len(bs) : C12_Accepted(bs[k])}
        firsts == {k \in ok : (k - 1) \notin ok}
        lasts == {k \in ok : (k + 1) \notin ok}
    IN { <<f, Min({l \in lasts : l >= f})>> : f \in firsts }

\* the runs of at least 3 bytes, in scan order
RECURSIVE C12_InOrder(_)
C12_InOrder(rs) ==
    IF rs = {} THEN <<>>
    ELSE LET first == CHOOSE r \in rs : \A q \in rs : r[1] <= q[1]
         IN <<first>> \o C12_InOrder(rs \ {first})

C12_KeptRuns(bs) == C12_InOrder({ r \in C12_Runs(bs) : r[2] - r[1] + 1 >= 3 })

C12_Fragments(bs) ==
    LET kept == C12_KeptRuns(bs) IN
    [k \in 1..Len(kept) |-> Utf8DecodeIgnore(SubSeq(bs, kept[k][1], kept[k][2]))]

C17_Ascii(t) == \A i \in 1..Len(t) : (32 <= t[i] /\ t[i] <= 126) \/ t[i] \in {9, 10, 13}

Backslash == "\\"
Quote == "\""

\* text.replace(c, repl) for one character c
RECURSIVE ReplaceChar(_, _, _)
ReplaceChar(s, c, repl) ==
    IF s = <<>> THEN <<>>
    ELSE (IF s[1] = c THEN repl ELSE <<s[1]>>) \o ReplaceChar(Tail(s), c, repl)

\* escape_for_applescript escaping the quotes before the backslashes
EscapeQuotesFirst(text) ==
    ReplaceChar(ReplaceChar(text, Quote, <<Backslash, Quote>>),
                Backslash, <<Backslash, Backslash>>)

\* escape_for_applescript: backslashes first, then quotes
EscapeForApplescript(text) ==
    ReplaceChar(ReplaceChar(text, Backslash, <<Backslash, Backslash>>),
                Quote, <<Backslash, Quote>>)

\* the interpreter reading a string literal from index i of s on: a backslash
\* takes the next character as it is, a bare quote ends the literal
RECURSIVE ReadFrom(_, _, _)
ReadFrom(s, i, acc) ==
    IF i > Len(s) THEN [value |-> acc, closed |-> FALSE, rest |-> <<>>]
    ELSE IF s[i] = Backslash
    THEN (IF i + 1 <= Len(s)
          THEN ReadFrom(s, i + 2, Append(acc, s[i + 1]))
          ELSE [value |-> acc, closed |-> FALSE, rest |-> <<>>])
    ELSE IF s[i] = Quote
    THEN [value |-> acc, closed |-> TRUE, rest |-> SubSeq(s, i + 1, Len(s))]
    ELSE ReadFrom(s, i + 1, Append(acc, s[i]))

\* the literal that starts with the quote at s[1]
ReadLiteral(s) == ReadFrom(s, 2, <<>>)

MaxEscLen == 4

EscChars == {Backslash, Quote, "a"}

RECURSIVE EscTexts(_)
EscTexts(n) ==
    IF n = 0 THEN { <<>> }
    ELSE LET shorter == EscTexts(n - 1) IN
         shorter \cup { Append(t, c) : t \in { u \in shorter : Len(u) = n - 1 }, c \in EscChars }

EscInit ==
    /\ escText \in EscTexts(MaxEscLen)
    /\ escPc = "start"
    /\ escaped = <<>>
    /\ script = <<>>
    /\ scriptRead = [value |-> <<>>, closed |-> FALSE, rest |-> <<>>]

\* body_escaped = escape_for_applescript(body)
EscEscape ==
    /\ UNCHANGED escOther
    /\ escPc = "start"
    /\ escaped' = EscapeForApplescript(escText)
    /\ escPc' = "escaped"
    /\ UNCHANGED <<escText, script, scriptRead>>

\* the f-string: body:"{body_escaped}"
EscBuild ==
    /\ UNCHANGED escOther
    /\ escPc = "escaped"
    /\ script' = <<Quote>> \o escaped \o <<Quote>>
    /\ escPc' = "built"
    /\ UNCHANGED <<escText, escaped, scriptRead>>

\* run_applescript(script): the interpreter reads the literal
EscRun ==
    /\ UNCHANGED escOther
    /\ escPc = "built"
    /\ scriptRead' = ReadLiteral(script)
    /\ escPc' = "read"
    /\ UNCHANGED <<escText, escaped, script>>

EscNext ==
    \/ EscEscape
    \/ EscBuild
    \/ EscRun

InitEscape == EscInit /\ ExIdle /\ CodecIdle /\ DateIdle /\ EditIdle

SpecEscape == InitEscape /\ [][EscNext]_vars

\* each character escaped on its own
C10_Escaped(c) ==
    IF c = Backslash THEN <<Backslash, Backslash>>
    ELSE IF c = Quote THEN <<Backslash, Quote>>
    ELSE <<c>>

\* C10: every backslash becomes two backslashes and every double quote becomes
\* backslash-quote; the literal built from the result ends at its closing quote
\* (no unescaped quote inside) and reads back as the original string.
C10_EscapeRoundTrip ==
    /\ escPc \in {"escaped", "built", "read"} =>
           escaped = Concat([k \in 1..Len(escText) |-> C10_Escaped(escText[k])])
    /\ escPc = "read" =>
           scriptRead = [value |-> escText, closed |-> TRUE, rest |-> <<>>]

\* C10 witness: a string with a backslash right before a quote has been escaped
\* and read back.
C10_Witness ==
    /\ escPc = "read"
    /\ IndexOfSub(escText, <<Backslash, Quote>>) > 0
    /\ scriptRead.value = escText
    /\ scriptRead.closed

(***************************************************************************)
(* format_date (cli.py).  A timestamp of days * 86400 + secs seconds is    *)
(* kept as the pair (days, secs), 0 <= secs < 86400, the way timedelta     *)
(* normalises it.                                                          *)
(***************************************************************************)

MaxTimestamp == 2000000000
SecondsPerDay == 86400

\* date(2001, 1, 1).toordinal() - 1
ReferenceDays == 730485

DaysBeforeMonth == <<0, 31, 59, 90, 120, 151, 181, 212, 243, 273, 304, 334>>
DaysInMonth == <<31, 28, 31, 30, 31, 30, 31, 31, 30, 31, 30, 31>>

\* the date n days after 0001-01-01 (datetime's ordinal arithmetic)
OrdToYmd(n) ==
    LET n400 == n \div 146097
        r400 == n % 146097
        n100 == r400 \div 36524
        r100 == r400 % 36524
        n4 == r100 \div 1461
        r4 == r100 % 1461
        n1 == r4 \div 365
        r1 == r4 % 365
        year == n400 * 400 + 1 + n100 * 100 + n4 * 4 + n1
    IN IF n1 = 4 \/ n100 = 4
       THEN [year |-> year - 1, month |-> 12, day |-> 31]
       ELSE LET leap == n1 = 3 /\ (n4 # 24 \/ n100 = 3)
                m0 == (r1 + 50) \div 32
                before0 == DaysBeforeMonth[m0] + (IF m0 > 2 /\ leap THEN 1 ELSE 0)
                month == IF before0 > r1 THEN m0 - 1 ELSE m0
                before == IF before0 > r1
                          THEN before0 - (DaysInMonth[month]
                                             + (IF month = 2 /\ leap THEN 1 ELSE 0))
                          ELSE before0
            IN [year |-> year, month |-> month, day |-> r1 - before + 1]

\* InvalidTimestamp rejecting 0 as well
InvalidTimestampOrZero(ts) ==
    \/ ts.days < 0
    \/ (ts.days = 0 /\ ts.secs = 0)
    \/ ts.days > MaxTimestamp \div SecondsPerDay
    \/ (ts.days = MaxTimestamp \div SecondsPerDay /\ ts.secs > MaxTimestamp % SecondsPerDay)

\* timestamp < 0 or timestamp > 2000000000
InvalidTimestamp(ts) ==
    \/ ts.days < 0
    \/ ts.days > MaxTimestamp \div SecondsPerDay
    \/ (ts.days = MaxTimestamp \div SecondsPerDay /\ ts.secs > MaxTimestamp % SecondsPerDay)

Unknown == [unknown |-> TRUE]

\* format_date as a function of its argument
FormatDate(ts) ==
    IF ~ts.present THEN Unknown
    ELSE IF InvalidTimestamp(ts) THEN Unknown
    ELSE LET ymd == OrdToYmd(ReferenceDays + ts.days) IN
         [unknown |-> FALSE, year |-> ymd.year, month |-> ymd.month, day |-> ymd.day,
          hour |-> ts.secs \div 3600, minute |-> (ts.secs % 3600) \div 60]

MaxDayRun == 1500

\* days: around zero, a run of days from 2001 on, around the bound, 3000000000 s
DaySamples ==
    {-2, -1} \cup (0..MaxDayRun) \cup {10000, 20000, 23147, 23148, 23149, 34722}

SecSamples == {0, 59, 60, 3599, 3600, 12800, 12801, 19200, 86395, 86399}

Timestamps ==
    { [present |-> TRUE, days |-> d, secs |-> sec] : d \in DaySamples, sec \in SecSamples }
    \cup { [present |-> FALSE, days |-> 0, secs |-> 0] }

DateInit ==
    /\ timestamp \in Timestamps
    /\ datePc = "start"
    /\ dateResult = Unknown

DateFormat ==
    /\ UNCHANGED dateOther
    /\ datePc = "start"
    /\ dateResult' = FormatDate(timestamp)
    /\ datePc' = "done"
    /\ UNCHANGED timestamp

DateNext == DateFormat

InitDate == DateInit /\ ExIdle /\ CodecIdle /\ EscIdle /\ EditIdle

SpecDate == InitDate /\ [][DateNext]_vars

\* the Gregorian leap years
C8_Leap(y) == y % 4 = 0 /\ (y % 100 # 0 \/ y % 400 = 0)

C8_MonthLen(y, m) == IF m = 2 /\ C8_Leap(y) THEN 29 ELSE DaysInMonth[m]

RECURSIVE C8_DaysOfYears(_)
C8_DaysOfYears(y) ==
    IF y <= 2001 THEN 0
    ELSE C8_DaysOfYears(y - 1) + (IF C8_Leap(y - 1) THEN 366 ELSE 365)

RECURSIVE C8_DaysOfMonths(_, _)
C8_DaysOfMonths(y, m) ==
    IF m <= 1 THEN 0 ELSE C8_DaysOfMonths(y, m - 1) + C8_MonthLen(y, m - 1)

\* the days from 2001-01-01 to the date y-m-d, counted year by year
C8_DaysSinceReference(y, m, d) == C8_DaysOfYears(y) + C8_DaysOfMonths(y, m) + d - 1

\* t < 0 or t > 2000000000, on the seconds
C8_OutOfRange(ts) ==
    \/ ts.days > 24000
    \/ ts.days * 86400 + ts.secs < 0
    \/ ts.days * 86400 + ts.secs > 2000000000

MaxExternalEdits == 2

NoDate == -1

BodyX == <<"<", "d", "i", "v", ">", "x", "<", "/", "d", "i", "v", ">">>
BodyY == <<"<", "d", "i", "v", ">", "y", "<", "/", "d", "i", "v", ">">>

\* the bodies the note can have before the command writes it
NoteBodies == {BodyX, BodyY}

\* what --body, stdin or the editor can supply
NewMarkdowns == { <<"x">>, <<"y">>, <<" ", "x", "\n">>, <<"#", " ", "x">> }

\* getModificationTimestamp(identifier)
GetNoteModificationDate == note_mod

\* getBody(identifier)
GetNoteBodyById == note_body

\* the record of one Automation Client call
Call(op) == [op |-> op, mod |-> note_mod]

\* the command ends with a ClickException
EditFails(message) ==
    /\ editPc' = "failed"
    /\ edit_output' = Append(edit_output, message)

\* current_mod_date != initial_mod_date, never true
ModifiedExternallyNever(current, initial) == FALSE

\* ModifiedExternally with the comparison current_mod_date < initial_mod_date
ModifiedExternallyBackwards(current, initial) == current < initial

\* current_mod_date != initial_mod_date
ModifiedExternally(current, initial) == current # initial

\* not click.confirm("Overwrite changes?")
Declined(answer) == answer # "yes"

\* NoChanges comparing without strip()
NoChangesExact(new, current) == new = current

\* new_markdown.strip() == current_markdown.strip()
NoChanges(new, current) == StripChars(new) = StripChars(current)

EditInit ==
    /\ note_body \in NoteBodies
    /\ note_mod = 1
    /\ external_edits = 0
    /\ editPc = "start"
    /\ initial_mod_date = NoDate
    /\ current_html = <<>>
    /\ current_markdown = <<>>
    /\ new_markdown = <<>>
    /\ current_mod_date = NoDate
    /\ confirm_answer = "none"
    /\ calls = <<>>
    /\ edit_output = <<>>

\* db.get_note_by_id / get_note_by_title, then get_note_id_by_title
EditFind ==
    /\ UNCHANGED editOther
    /\ editPc = "start"
    /\ \E outcome \in {"found", "no note", "no apple id"} :
           IF outcome = "no note"
           THEN EditFails("Note not found") /\ UNCHANGED calls
           ELSE /\ calls' = Append(calls, Call("getId"))
                /\ IF outcome = "found"
                   THEN editPc' = "found" /\ UNCHANGED edit_output
                   ELSE EditFails("Could not find note in Apple Notes")
    /\ UNCHANGED <<note_body, note_mod, external_edits, initial_mod_date, current_html,
                   current_markdown, new_markdown, current_mod_date, confirm_answer>>

\* initial_mod_date = applescript.get_note_modification_date(apple_id)
EditCapture ==
    /\ UNCHANGED editOther
    /\ editPc = "found"
    /\ calls' = Append(calls, Call("getModificationTimestamp"))
    /\ \E ok \in BOOLEAN :
           IF ok
           THEN /\ initial_mod_date' = GetNoteModificationDate
                /\ editPc' = "captured"
                /\ UNCHANGED edit_output
           ELSE EditFails("automation error") /\ UNCHANGED initial_mod_date
    /\ UNCHANGED <<note_body, note_mod, external_edits, current_html, current_markdown,
                   new_markdown, current_mod_date, confirm_answer>>

\* current_html = get_note_body_by_id(apple_id); current_markdown = html_to_markdown(...)
EditRead ==
    /\ UNCHANGED editOther
    /\ editPc = "captured"
    /\ calls' = Append(calls, Call("getBody"))
    /\ \E ok \in BOOLEAN :
           IF ok
           THEN /\ current_html' = GetNoteBodyById
                /\ \E strHasGetText \in BOOLEAN :
                       current_markdown' = HtmlToMarkdown(GetNoteBodyById, strHasGetText)
                /\ editPc' = "read"
                /\ UNCHANGED edit_output
           ELSE EditFails("automation error") /\ UNCHANGED <<current_html, current_markdown>>
    /\ UNCHANGED <<note_body, note_mod, external_edits, initial_mod_date, new_markdown,
                   current_mod_date, confirm_answer>>

\* new_markdown from --body, stdin or the editor (which starts from current_markdown)
EditInput ==
    /\ UNCHANGED editOther
    /\ editPc = "read"
    /\ \/ \E m \in NewMarkdowns \cup {current_markdown} :
              /\ new_markdown' = m
              /\ editPc' = "input"
              /\ UNCHANGED edit_output
       \/ \E message \in {"Editor exited with code", "No content provided"} :
              EditFails(message) /\ UNCHANGED new_markdown
    /\ UNCHANGED <<note_body, note_mod, external_edits, initial_mod_date, current_html,
                   current_markdown, current_mod_date, confirm_answer, calls>>

\* if new_markdown.strip() == current_markdown.strip(): "No changes made."; return
EditCompare ==
    /\ UNCHANGED editOther
    /\ editPc = "input"
    /\ IF NoChanges(new_markdown, current_markdown)
       THEN editPc' = "done" /\ edit_output' = Append(edit_output, "No changes made.")
       ELSE editPc' = "changed" /\ UNCHANGED edit_output
    /\ UNCHANGED <<note_body, note_mod, external_edits, initial_mod_date, current_html,
                   current_markdown, new_markdown, current_mod_date, confirm_answer, calls>>

\* current_mod_date = get_note_modification_date(apple_id); the warning when it moved
EditRecheck ==
    /\ UNCHANGED editOther
    /\ editPc = "changed"
    /\ calls' = Append(calls, Call("getModificationTimestamp"))
    /\ \E ok \in BOOLEAN :
           IF ok
           THEN /\ current_mod_date' = GetNoteModificationDate
                /\ IF ModifiedExternally(GetNoteModificationDate, initial_mod_date)
                   THEN /\ editPc' = "prompt"
                        /\ edit_output' = Append(edit_output,
                                                 "Warning: Note was modified externally.")
                   ELSE editPc' = "ready" /\ UNCHANGED edit_output
           ELSE EditFails("automation error") /\ UNCHANGED current_mod_date
    /\ UNCHANGED <<note_body, note_mod, external_edits, initial_mod_date, current_html,
                   current_markdown, new_markdown, confirm_answer>>

\* if not click.confirm("Overwrite changes?"): "Edit cancelled."; return
EditConfirm ==
    /\ UNCHANGED editOther
    /\ editPc = "prompt"
    /\ \E answer \in {"yes", "no"} :
           /\ confirm_answer' = answer
           /\ IF Declined(answer)
              THEN editPc' = "done" /\ edit_output' = Append(edit_output, "Edit cancelled.")
              ELSE editPc' = "ready" /\ UNCHANGED edit_output
    /\ UNCHANGED <<note_body, note_mod, external_edits, initial_mod_date, current_html,
                   current_markdown, new_markdown, current_mod_date, calls>>

\* new_html = markdown_to_html(new_markdown); update_note_by_id(apple_id, new_html)
EditUpdate ==
    /\ UNCHANGED editOther
    /\ editPc = "ready"
    /\ calls' = Append(calls, Call("updateBody"))
    /\ \E ok \in BOOLEAN :
           IF ok
           THEN /\ note_body' = MarkdownToHtml(new_markdown)
                /\ note_mod' = note_mod + 1
                /\ editPc' = "done"
                /\ edit_output' = Append(edit_output, "Updated note")
           ELSE EditFails("automation error") /\ UNCHANGED <<note_body, note_mod>>
    /\ UNCHANGED <<external_edits, initial_mod_date, current_html, current_markdown,
                   new_markdown, current_mod_date, confirm_answer>>

\* the Notes application changes the note out of band
ExternalModify ==
    /\ UNCHANGED editOther
    /\ external_edits < MaxExternalEdits
    /\ \E b \in NoteBodies : note_body' = b
    /\ note_mod' = note_mod + 1
    /\ external_edits' = external_edits + 1
    /\ UNCHANGED <<editPc, initial_mod_date, current_html, current_markdown, new_markdown,
                   current_mod_date, confirm_answer, calls, edit_output>>

EditNext ==
    \/ EditFind
    \/ EditCapture
    \/ EditRead
    \/ EditInput
    \/ EditCompare
    \/ EditRecheck
    \/ EditConfirm
    \/ EditUpdate
    \/ ExternalModify

InitEdit == EditInit /\ ExIdle /\ CodecIdle /\ DateIdle /\ EscIdle

SpecEdit == InitEdit /\ [][EditNext]_vars

\* the positions of the calls of one operation
C9_CallsOf(op) == {i \in 1..Len(calls) : calls[i].op = op}

\* the date the command was given by its k-th timestamp call
C9_DateAt(k) == calls[k].mod

C9_Order ==
    \* the body is read, and decoded, only after the first timestamp call
    /\ \A i \in C9_CallsOf("getBody") :
           \E j \in C9_CallsOf("getModificationTimestamp") : j < i
    /\ (current_html # <<>> \/ current_markdown # <<>>) =>
           /\ C9_CallsOf("getBody") # {}
           /\ initial_mod_date # NoDate
           /\ initial_mod_date = C9_DateAt(Min(C9_CallsOf("getModificationTimestamp")))
    \* the call right before the update is the second timestamp call
    /\ \A i \in C9_CallsOf("updateBody") :
           /\ i > 1
           /\ calls[i - 1].op = "getModificationTimestamp"
           /\ \E j \in C9_CallsOf("getBody") : j < i - 1
           /\ current_mod_date = C9_DateAt(i - 1)
           \* a changed date: the update only after the user said yes
           /\ C9_DateAt(i - 1) # initial_mod_date => confirm_answer = "yes"
    \* declined: no update
    /\ confirm_answer = "no" =>
           /\ C9_CallsOf("updateBody") = {}
           /\ editPc = "done"

\* once declined, only the Notes application changes the note
C9_DeclinedKeepsNote ==
    confirm_answer' = "no" =>
        \/ (note_body' = note_body /\ note_mod' = note_mod)
        \/ external_edits' # external_edits

\* C9: the modification date is captured before the body is read and decoded
\* and read again right before the update; when the two dates differ the update
\* is issued only after the user confirmed, and after a refusal no update is
\* issued and the command leaves the note as it is.
C9_ConflictNeedsConfirmation == []C9_Order /\ [][C9_DeclinedKeepsNote]_vars

\* C9 witness: the note was modified after the capture, the user confirmed and
\* the update was issued.
C9_Witness ==
    /\ editPc = "done"
    /\ C9_CallsOf("updateBody") # {}
    /\ current_mod_date # initial_mod_date
    /\ confirm_answer = "yes"
    /\ external_edits > 0

\* the other case of C9: the user refused and the command ended without update
C9_DeclinedReached ==
    /\ editPc = "done"
    /\ confirm_answer = "no"
    /\ C9_CallsOf("updateBody") = {}

\* the text without the white space around it, read off its first and last
\* character that is no white space
C18_Trimmed(t) ==
    LET ink == {i \in 1..Len(t) : t[i] \notin {" ", "\t", "\n", "\r", "\f"}} IN
    IF ink = {} THEN <<>>
    ELSE [k \in 1..(Max(ink) - Min(ink) + 1) |-> t[Min(ink) + k - 1]]

C18_Same == C18_Trimmed(new_markdown) = C18_Trimmed(current_markdown)

C18_NoChangePath ==
    /\ editPc \in {"changed", "prompt", "ready"} => ~C18_Same
    /\ editPc = "done" =>
           (C18_Same <=> edit_output = <<"No changes made.">>)
    /\ (editPc = "done" /\ C18_Same) =>
           /\ C9_CallsOf("updateBody") = {}
           /\ Cardinality(C9_CallsOf("getModificationTimestamp")) = 1
           /\ current_mod_date = NoDate
           /\ confirm_answer = "none"

C18_KeepsNote ==
    (editPc' = "done" /\ C18_Same') =>
        \/ (note_body' = note_body /\ note_mod' = note_mod)
        \/ external_edits' # external_edits

\* C18: when the new markup equals the decoded markup after trimming, the
\* command reports "No changes made." and ends: no update call, no second
\* timestamp call, no prompt, and the note is left as it is.
C18_NoChangesNoUpdate == []C18_NoChangePath /\ [][C18_KeepsNote]_vars

\* C18 witness: the new markup differs from the current one only in the white
\* space around it, the note was modified meanwhile, and the command ended with
\* "No changes made." alone.
C18_Witness ==
    /\ editPc = "done"
    /\ new_markdown # current_markdown
    /\ C18_Same
    /\ external_edits > 0
    /\ edit_output = <<"No changes made.">>

\* the date of the note when the update call was issued differs from the
\* captured one exactly when the note was modified after the capture
C19_ModifiedSinceCapture(i) == calls[i].mod # initial_mod_date

\* C19 as stated: in every interleaving an update issued without confirmation
\* means that the note was not modified between the capture and the update call.
C19_NoSilentOverwrite ==
    \A i \in C9_CallsOf("updateBody") :
        confirm_answer # "yes" => ~C19_ModifiedSinceCapture(i)

\* C19 amended: an update issued without confirmation means that the note was
\* not modified between the capture and the second timestamp call; between that
\* call and the update call its date may have moved.
C19_NoSilentOverwriteBeforeRecheck ==
    \A i \in C9_CallsOf("updateBody") :
        confirm_answer # "yes" =>
            /\ ~C19_ModifiedSinceCapture(i - 1)
            /\ \A j \in 1..(i - 1) :
                   calls[j].op \in {"getModificationTimestamp", "getBody"} =>
                       calls[j].mod = initial_mod_date

\* C19 witness: the note was modified after the second timestamp call and the
\* update was issued without a prompt.
C19_Witness ==
    /\ editPc = "done"
    /\ confirm_answer = "none"
    /\ \E i \in C9_CallsOf("updateBody") :
           /\ C19_ModifiedSinceCapture(i)
           /\ ~C19_ModifiedSinceCapture(i - 1)
    /\ edit_output = <<"Updated note">>

====
